---- MODULE Spec2Model ----
(***************************************************************************)
(* Client Journey Simulation Engine (backend_v2/sim_client_engine.py).     *)
(*                                                                         *)
(* A caller invokes run_client_simulation(days, persona_key, seed) and,    *)
(* after it returned, invokes it again with the same arguments at a later  *)
(* wall-clock time.  Each call is a sequence of steps: the entry (clamp,   *)
(* persona lookup, seeding), then per simulated day the five sub-steps of  *)
(* the day loop, then the return that assembles the result.                *)
(*                                                                         *)
(* Probabilities are percentages (0.85 is 85), which is exact for every    *)
(* threshold of the source.  random.Random is a seeded deterministic       *)
(* generator: its state is a residue modulo 1000, advanced by a full       *)
(* period linear congruential step; random() is the state's percentile.    *)
(* The wall clock is a number of seconds, read once per call.              *)
(***************************************************************************)
EXTENDS Integers, Sequences, FiniteSets, TLC

VARIABLES
    req,                  \* per call: the arguments [days, persona_key, seed]
    now,                  \* per call: datetime.utcnow() as seconds
    pc,                   \* per call: position in run_client_simulation
    days,                 \* local: the clamped day count
    persona,              \* local: the resolved PersonaConfig
    rnd,                  \* local: state of the call's random.Random
    current_stage,        \* local
    events,               \* local: List[SimEvent]
    client_msg_count,     \* local
    assistant_msg_count,  \* local
    system_msg_count,     \* local
    day,                  \* local: loop variable of the day loop
    result,               \* per call: the returned dict, once returned
    probe,                \* one direct call of _next_stage and what it returned
    graph                 \* one direct call of build_conversation_graph and what it returned

vars == <<req, now, pc, days, persona, rnd, current_stage, events,
          client_msg_count, assistant_msg_count, system_msg_count, day,
          result, probe, graph>>

-----------------------------------------------------------------------------
(* Bounds of the exploration *)

\* seeds supplied by the caller: None and 0..MaxSeed
MaxSeed == 3
\* wall-clock readings: MaxClock instants, 45 seconds apart
MaxClock == 2
\* requested day counts lie within DaysMargin of the two clamp limits
DaysMargin == 1

\* the calls of run_client_simulation a behaviour holds
Calls == {1, 2, 3}
\* the first call of a request and its repetition
Sequential == {1, 2}
\* the calls whose day steps are interleaved
Concurrent == {2, 3}

\* the clamp limits of run_client_simulation
MinDays == 7
MaxDays == 90

None == <<>>
Seeds == {None} \cup {<<s>> : s \in 0..MaxSeed}
Clocks == {45 * i : i \in 1..MaxClock}
DaysIn == ((MinDays - DaysMargin)..(MinDays + DaysMargin)) \cup {MaxDays + DaysMargin}

-----------------------------------------------------------------------------
(* Stage, Actor *)

Stage == {"New", "Inquiry", "Engaged", "Warm", "Active", "Hot", "High Intent",
          "Under Contract", "Converted", "Won", "Lost"}

Actor == {"client", "assistant", "system"}

_STAGE_FLOW ==
    <<"New", "Inquiry", "Engaged", "Warm", "Active", "Hot", "High Intent",
      "Under Contract", "Converted", "Won", "Lost">>

-----------------------------------------------------------------------------
(* Persona catalog *)

PersonaConfig(key, label, description, starting_stage, reply, proactive, drop_off, revive) ==
    [key |-> key, label |-> label, description |-> description,
     starting_stage |-> starting_stage, reply_chance |-> reply,
     proactive_chance |-> proactive, drop_off_chance |-> drop_off,
     revive_chance |-> revive]

_PERSONAS ==
    [k \in {"hot_lead", "ghosting_lead", "slow_nurture", "impatient_buyer",
            "research_heavy", "negative_cues"} |->
      CASE k = "hot_lead" ->
             PersonaConfig("hot_lead", "Hot Buyer",
                 "Highly responsive lead with strong signals, quick replies, and rapid stage progression.",
                 "Engaged", 85, 60, 5, 15)
        [] k = "ghosting_lead" ->
             PersonaConfig("ghosting_lead", "Ghosting Lead",
                 "Engages early but goes silent for long stretches. Assistant must follow nurture cadences.",
                 "Warm", 25, 65, 12, 30)
        [] k = "slow_nurture" ->
             PersonaConfig("slow_nurture", "Slow Nurture Lead",
                 "Replies every few days with smaller messages, moving slowly through the funnel.",
                 "New", 40, 50, 6, 25)
        [] k = "impatient_buyer" ->
             PersonaConfig("impatient_buyer", "Impatient Buyer",
                 "Demands fast answers, sends long and urgent messages, escalates quickly.",
                 "Engaged", 80, 70, 3, 12)
        [] k = "research_heavy" ->
             PersonaConfig("research_heavy", "Research-Heavy Buyer",
                 "Provides detailed replies, asks many questions, and takes time to evaluate options.",
                 "Inquiry", 55, 55, 5, 15)
        [] OTHER ->
             PersonaConfig("negative_cues", "Negative-Cues Lead",
                 "Short replies, longer delays, subtle hints of disengagement or uncertainty.",
                 "Warm", 30, 45, 15, 10)]

\* persona keys a caller passes: the catalog's and one that is not in it
PersonaKeys == DOMAIN _PERSONAS \cup {"does_not_exist"}

\* mutant: the fallback persona carries the requested key
_get_persona_echo(key) ==
    IF key \in DOMAIN _PERSONAS THEN _PERSONAS[key]
    ELSE [_PERSONAS["hot_lead"] EXCEPT !.key = key]

_get_persona(key) ==
    IF key \in DOMAIN _PERSONAS THEN _PERSONAS[key] ELSE _PERSONAS["hot_lead"]

-----------------------------------------------------------------------------
(* random.Random *)

\* random.Random(x): the generator state that seed x gives
RandomSeed(x) == x % 1000

\* one step of the generator
RandomStep(s) == (421 * s + 17) % 1000

\* rnd.random(): the value drawn, as a percentile 0..99, and the state after
random(s) == [value |-> RandomStep(s) \div 10, rnd |-> RandomStep(s)]

\* rnd.choice(seq): the 1-based position chosen among n, and the state after
choice(s, n) == [pos |-> ((RandomStep(s) * n) \div 1000) + 1, rnd |-> RandomStep(s)]

-----------------------------------------------------------------------------
(* Stage transition logic *)

\* list.index: 0-based position of x in seq, -1 for ValueError
list_index(seq, x) ==
    IF \E i \in 1..Len(seq) : seq[i] = x
    THEN (CHOOSE i \in 1..Len(seq) : seq[i] = x /\ \A j \in 1..(i - 1) : seq[j] # x) - 1
    ELSE -1

\* what a call of _next_stage gives: the stage returned, or raised = TRUE when
\* an exception leaves the call, and the generator state after the call
Returned(stage, r) == [stage |-> stage, raised |-> FALSE, rnd |-> r]

\* mutant: the ValueError of the lookup is not caught
_next_stage_raising(current, positive, r) ==
    IF current \in {"Converted", "Lost", "Won"} THEN Returned(current, r)
    ELSE IF ~positive THEN
        LET d == random(r)
        IN  IF d.value < 40 THEN Returned("Lost", d.rnd) ELSE Returned(current, d.rnd)
    ELSE LET idx == list_index(_STAGE_FLOW, current)
         IN  IF idx = -1 THEN [stage |-> current, raised |-> TRUE, rnd |-> r]
             ELSE IF idx >= Len(_STAGE_FLOW) - 1 THEN Returned("Converted", r)
             ELSE LET d == random(r)
                  IN  IF d.value < 70 THEN Returned(_STAGE_FLOW[(idx + 1) + 1], d.rnd)
                      ELSE Returned(current, d.rnd)

\* mutant: a positive signal advances two places in _STAGE_FLOW
_next_stage_skipping(current, positive, r) ==
    IF current \in {"Converted", "Lost", "Won"} THEN Returned(current, r)
    ELSE IF ~positive THEN
        LET d == random(r)
        IN  IF d.value < 40 THEN Returned("Lost", d.rnd) ELSE Returned(current, d.rnd)
    ELSE LET idx == list_index(_STAGE_FLOW, current)
         IN  IF idx = -1 THEN Returned(current, r)
             ELSE IF idx >= Len(_STAGE_FLOW) - 2 THEN Returned("Converted", r)
             ELSE LET d == random(r)
                  IN  IF d.value < 70 THEN Returned(_STAGE_FLOW[(idx + 2) + 1], d.rnd)
                      ELSE Returned(current, d.rnd)

\* mutant: every call is treated as a negative signal
_next_stage_negative(current, positive, r) ==
    IF current \in {"Converted", "Lost", "Won"} THEN Returned(current, r)
    ELSE LET d == random(r)
         IN  IF d.value < 40 THEN Returned("Lost", d.rnd) ELSE Returned(current, d.rnd)

_next_stage(current, positive, r) ==
    IF current \in {"Converted", "Lost", "Won"} THEN Returned(current, r)
    ELSE IF ~positive THEN
        LET d == random(r)
        IN  IF d.value < 40 THEN Returned("Lost", d.rnd) ELSE Returned(current, d.rnd)
    ELSE LET idx == list_index(_STAGE_FLOW, current)
         IN  IF idx = -1 THEN Returned(current, r)
             ELSE IF idx >= Len(_STAGE_FLOW) - 1 THEN Returned("Converted", r)
             ELSE LET d == random(r)
                  IN  IF d.value < 70 THEN Returned(_STAGE_FLOW[(idx + 1) + 1], d.rnd)
                      ELSE Returned(current, d.rnd)

-----------------------------------------------------------------------------
(* Message generators.  A message is identified by its bank, the key of     *)
(* the bank's list it was chosen from, and its position in that list.       *)

MessageKeys == {"New", "Inquiry", "Engaged", "Warm", "Active", "Hot",
                "High Intent", "Converted", "Lost"}

Message(bank, key, pos) == [bank |-> bank, key |-> key, pos |-> pos]

_client_message_for(stage, r) ==
    LET key == IF stage \in MessageKeys THEN stage ELSE "Just checking in"
        n == IF stage \in MessageKeys THEN 2 ELSE 1
        c == choice(r, n)
    IN  [message |-> Message("client", key, c.pos), rnd |-> c.rnd]

_assistant_message_for(stage, r) ==
    LET key == IF stage \in MessageKeys THEN stage ELSE "logical next steps"
        n == IF stage \in MessageKeys THEN 2 ELSE 1
        c == choice(r, n)
    IN  [message |-> Message("assistant", key, c.pos), rnd |-> c.rnd]

_system_summary_for(d, stage, converted, lost) ==
    IF converted THEN Message("system", "Lead converted", d)
    ELSE IF lost THEN Message("system", "Lead is Lost", d)
    ELSE IF stage \in {"High Intent", "Hot", "Active"} THEN Message("system", "highly engaged", d)
    ELSE IF stage \in {"Warm", "Engaged"} THEN Message("system", "warming steadily", d)
    ELSE Message("system", "Early-stage nurture", d)

-----------------------------------------------------------------------------
(* SimEvent and its time label *)

\* strftime('%I:%M %p') of the instant t (seconds)
strftime(t) ==
    LET minute_of_day == (t \div 60) % 1440
        hour == minute_of_day \div 60
    IN  [I |-> IF hour % 12 = 0 THEN 12 ELSE hour % 12,
         M |-> minute_of_day % 60,
         p |-> IF hour < 12 THEN "AM" ELSE "PM"]

\* dt = utcnow() - timedelta(days=(days - day))
dt(c) == now[c] - 86400 * (days[c] - day[c])

\* f"{day_label} -- {(dt + timedelta(hours=h)).strftime('%I:%M %p')}"
time_label(c, h) == [day_label |-> day[c], clock |-> strftime(dt(c) + 3600 * h)]

SimEvent(day_index, actor, stage_before, stage_after, message, label) ==
    [day_index |-> day_index, actor |-> actor, stage_before |-> stage_before,
     stage_after |-> stage_after, message |-> message, time_label |-> label]

-----------------------------------------------------------------------------
(* Conversation graph engine *)

\* mutant: a day without events falls back to the default stage
stage_timeline_step_reset(prev, evs, d) ==
    LET todays == SelectSeq(evs, LAMBDA e : e.day_index = d)
        last_stage == IF todays # <<>> THEN todays[Len(todays)].stage_after
                      ELSE "New"
        fresh == last_stage \notin DOMAIN prev.stage_to_idx
        stage_to_idx == IF fresh
                        THEN prev.stage_to_idx @@ (last_stage :> Len(prev.stage_order))
                        ELSE prev.stage_to_idx
        stage_order == IF fresh THEN Append(prev.stage_order, last_stage)
                       ELSE prev.stage_order
    IN  [stage_timeline |->
             Append(prev.stage_timeline,
                    [day |-> d, stage |-> last_stage,
                     stage_index |-> stage_to_idx[last_stage]]),
         last_stage |-> last_stage, stage_order |-> stage_order,
         stage_to_idx |-> stage_to_idx]

\* mutant: the stage of a day is taken from its first event
stage_timeline_step_first(prev, evs, d) ==
    LET todays == SelectSeq(evs, LAMBDA e : e.day_index = d)
        last_stage == IF todays # <<>> THEN todays[1].stage_after
                      ELSE prev.last_stage
        fresh == last_stage \notin DOMAIN prev.stage_to_idx
        stage_to_idx == IF fresh
                        THEN prev.stage_to_idx @@ (last_stage :> Len(prev.stage_order))
                        ELSE prev.stage_to_idx
        stage_order == IF fresh THEN Append(prev.stage_order, last_stage)
                       ELSE prev.stage_order
    IN  [stage_timeline |->
             Append(prev.stage_timeline,
                    [day |-> d, stage |-> last_stage,
                     stage_index |-> stage_to_idx[last_stage]]),
         last_stage |-> last_stage, stage_order |-> stage_order,
         stage_to_idx |-> stage_to_idx]

\* mutant: stage_index is the position of the stage in _STAGE_FLOW
stage_timeline_step_canonical(prev, evs, d) ==
    LET todays == SelectSeq(evs, LAMBDA e : e.day_index = d)
        last_stage == IF todays # <<>> THEN todays[Len(todays)].stage_after
                      ELSE prev.last_stage
    IN  [stage_timeline |->
             Append(prev.stage_timeline,
                    [day |-> d, stage |-> last_stage,
                     stage_index |-> list_index(_STAGE_FLOW, last_stage)]),
         last_stage |-> last_stage, stage_order |-> prev.stage_order,
         stage_to_idx |-> prev.stage_to_idx]

\* iteration d of the first loop of build_conversation_graph, entered with
\* the locals prev
stage_timeline_step(prev, evs, d) ==
    LET todays == SelectSeq(evs, LAMBDA e : e.day_index = d)
        last_stage == IF todays # <<>> THEN todays[Len(todays)].stage_after
                      ELSE prev.last_stage
        fresh == last_stage \notin DOMAIN prev.stage_to_idx
        stage_to_idx == IF fresh
                        THEN prev.stage_to_idx @@ (last_stage :> Len(prev.stage_order))
                        ELSE prev.stage_to_idx
        stage_order == IF fresh THEN Append(prev.stage_order, last_stage)
                       ELSE prev.stage_order
    IN  [stage_timeline |->
             Append(prev.stage_timeline,
                    [day |-> d, stage |-> last_stage,
                     stage_index |-> stage_to_idx[last_stage]]),
         last_stage |-> last_stage, stage_order |-> stage_order,
         stage_to_idx |-> stage_to_idx]

RECURSIVE stage_timeline_range(_, _, _, _)
\* iterations lo..hi of the first loop, in increasing order, entered with the
\* locals acc; the range is run as two halves, the first one to its end before
\* the second starts, which keeps the nesting of the evaluation logarithmic
\* in days
stage_timeline_range(acc, evs, lo, hi) ==
    IF lo > hi THEN acc
    ELSE IF lo = hi THEN stage_timeline_step(acc, evs, lo)
    ELSE LET mid == (lo + hi) \div 2
         IN  CHOOSE out \in {stage_timeline_range(half, evs, mid + 1, hi) :
                                 half \in {stage_timeline_range(acc, evs, lo, mid)}} : TRUE

\* the first loop of build_conversation_graph after its iterations 1..d
stage_timeline_loop(evs, d) ==
    stage_timeline_range([stage_timeline |-> <<>>, last_stage |-> "New",
                          stage_order |-> <<>>, stage_to_idx |-> <<>>],
                         evs, 1, d)

\* mutant: the counts run up to day d instead of matching it
message_counts_cumulative(evs, d) ==
    [day |-> d,
     client |-> Len(SelectSeq(evs, LAMBDA e : e.day_index <= d /\ e.actor = "client")),
     assistant |-> Len(SelectSeq(evs, LAMBDA e : e.day_index <= d /\ e.actor = "assistant")),
     system |-> Len(SelectSeq(evs, LAMBDA e : e.day_index <= d /\ e.actor = "system"))]

\* the second loop of build_conversation_graph: the counts of day d
message_counts(evs, d) ==
    [day |-> d,
     client |-> Len(SelectSeq(evs, LAMBDA e : e.day_index = d /\ e.actor = "client")),
     assistant |-> Len(SelectSeq(evs, LAMBDA e : e.day_index = d /\ e.actor = "assistant")),
     system |-> Len(SelectSeq(evs, LAMBDA e : e.day_index = d /\ e.actor = "system"))]

\* mutant: both loops run over range(1, days)
build_conversation_graph_short(evs, n) ==
    [stage_timeline |-> stage_timeline_loop(evs, n - 1).stage_timeline,
     message_timeline |-> [d \in 1..(n - 1) |-> message_counts(evs, d)]]

build_conversation_graph(evs, n) ==
    [stage_timeline |-> stage_timeline_loop(evs, n).stage_timeline,
     message_timeline |-> [d \in 1..n |-> message_counts(evs, d)]]

-----------------------------------------------------------------------------
(* run_client_simulation *)

\* mutant: the lower limit is not applied
clamp_days_no_floor(d) == IF d > MaxDays THEN MaxDays ELSE d

\* if days < 7: days = 7;  if days > 90: days = 90
clamp_days(d) ==
    LET d1 == IF d < MinDays THEN MinDays ELSE d
    IN  IF d1 > MaxDays THEN MaxDays ELSE d1

\* mutant: the generator is always seeded from the clock
seed_or_now_clock(seed, t) == t

\* seed or int(datetime.utcnow().timestamp()): None and 0 are both falsy
seed_or_now(seed, t) == IF seed = None \/ seed[1] = 0 THEN t ELSE seed[1]

\* mutant: no stage holds the three steps back
terminal_never(stage) == FALSE

\* mutant: only Converted holds the three steps back
terminal_only_converted(stage) == stage = "Converted"

\* mutant: only Lost holds the three steps back
terminal_only_lost(stage) == stage = "Lost"

\* the guard of the reply, drop-off and proactive steps
terminal(stage) == stage \in {"Converted", "Lost"}

\* mutant: a revived lead re-enters at Engaged
revived_stage_engaged == "Engaged"

\* the stage a revived lead re-enters at
revived_stage == "Warm"

Requests == [days : DaysIn, persona_key : PersonaKeys, seed : Seeds]

\* no direct call of _next_stage is made
NoProbe == [current |-> "", positive |-> FALSE, rnd |-> 0, ret |-> "none", rnd_after |-> 0]

NoGraph ==
    [events |-> <<>>, days |-> 0, at |-> "none",
     ret |-> [stage_timeline |-> <<>>, message_timeline |-> <<>>]]

Idle ==
    /\ now = [c \in Calls |-> 0]
    /\ pc = [c \in Calls |-> "idle"]
    /\ days = [c \in Calls |-> 0]
    /\ persona = [c \in Calls |-> None]
    /\ rnd = [c \in Calls |-> 0]
    /\ current_stage = [c \in Calls |-> ""]
    /\ events = [c \in Calls |-> <<>>]
    /\ client_msg_count = [c \in Calls |-> 0]
    /\ assistant_msg_count = [c \in Calls |-> 0]
    /\ system_msg_count = [c \in Calls |-> 0]
    /\ day = [c \in Calls |-> 0]
    /\ result = [c \in Calls |-> None]

Init ==
    /\ \E r \in Requests : req = [c \in Calls |-> r]
    /\ Idle
    /\ probe = NoProbe
    /\ graph = NoGraph

\* mutant: one process-wide generator, reseeded by every call
Random_shared(c, t) == [k \in Calls |-> RandomSeed(seed_or_now(req[c].seed, t))]

\* rnd = random.Random(seed or int(datetime.utcnow().timestamp())): the
\* generators once call c has made its own, at the clock reading t
Random(c, t) == [rnd EXCEPT ![c] = RandomSeed(seed_or_now(req[c].seed, t))]

\* entry of run_client_simulation up to the head of the day loop, at the
\* clock reading t
Enter(c, t) ==
    /\ now' = [now EXCEPT ![c] = t]
    /\ rnd' = Random(c, t)
    /\ days' = [days EXCEPT ![c] = clamp_days(req[c].days)]
    /\ persona' = [persona EXCEPT ![c] = _get_persona(req[c].persona_key)]
    /\ current_stage' = [current_stage EXCEPT ![c] = _get_persona(req[c].persona_key).starting_stage]
    /\ events' = [events EXCEPT ![c] = <<>>]
    /\ client_msg_count' = [client_msg_count EXCEPT ![c] = 0]
    /\ assistant_msg_count' = [assistant_msg_count EXCEPT ![c] = 0]
    /\ system_msg_count' = [system_msg_count EXCEPT ![c] = 0]
    /\ day' = [day EXCEPT ![c] = 1]
    /\ pc' = [pc EXCEPT ![c] = IF 1 <= clamp_days(req[c].days) THEN "reply" ELSE "return"]
    /\ UNCHANGED <<req, result, probe, graph>>

\* a call made on its own; the repetition is made when the first call has
\* returned, not earlier in time
Call(c) ==
    /\ pc[c] = "idle"
    /\ c > 1 => pc[c - 1] = "done"
    /\ \E t \in Clocks :
        /\ c > 1 => t >= now[c - 1]
        /\ Enter(c, t)

\* 1) Client reply (if not terminal)
ClientReply(c) ==
    /\ pc[c] = "reply"
    /\ LET cur == current_stage[c]
           d == random(rnd[c])
           m == _client_message_for(cur, d.rnd)
           n == _next_stage(cur, TRUE, m.rnd)
       IN  IF terminal(cur) THEN
               /\ pc' = [pc EXCEPT ![c] = "dropoff"]
               /\ UNCHANGED <<rnd, current_stage, events, client_msg_count>>
           ELSE IF ~(d.value < persona[c].reply_chance) THEN
               /\ pc' = [pc EXCEPT ![c] = "dropoff"]
               /\ rnd' = [rnd EXCEPT ![c] = d.rnd]
               /\ UNCHANGED <<current_stage, events, client_msg_count>>
           ELSE IF n.raised THEN
               /\ pc' = [pc EXCEPT ![c] = "raised"]
               /\ UNCHANGED <<rnd, current_stage, events, client_msg_count>>
           ELSE
               /\ events' = [events EXCEPT ![c] =
                      Append(@, SimEvent(day[c], "client", cur, n.stage, m.message,
                                         time_label(c, 0)))]
               /\ client_msg_count' = [client_msg_count EXCEPT ![c] = @ + 1]
               /\ current_stage' = [current_stage EXCEPT ![c] = n.stage]
               /\ rnd' = [rnd EXCEPT ![c] = n.rnd]
               /\ pc' = [pc EXCEPT ![c] = "dropoff"]
    /\ UNCHANGED <<req, now, days, persona, assistant_msg_count, system_msg_count,
                   day, result, probe, graph>>

\* mutant: the drop-off event is emitted but current_stage is not set to Lost
DropOff_stage_kept(c) ==
    /\ pc[c] = "dropoff"
    /\ LET cur == current_stage[c]
           d == random(rnd[c])
           m == _client_message_for("Lost", d.rnd)
       IN  IF terminal(cur) THEN
               UNCHANGED <<rnd, current_stage, events, client_msg_count>>
           ELSE IF ~(d.value < persona[c].drop_off_chance) THEN
               /\ rnd' = [rnd EXCEPT ![c] = d.rnd]
               /\ UNCHANGED <<current_stage, events, client_msg_count>>
           ELSE
               /\ events' = [events EXCEPT ![c] =
                      Append(@, SimEvent(day[c], "client", cur, "Lost", m.message,
                                         time_label(c, 0)))]
               /\ client_msg_count' = [client_msg_count EXCEPT ![c] = @ + 1]
               /\ rnd' = [rnd EXCEPT ![c] = m.rnd]
               /\ UNCHANGED current_stage
    /\ pc' = [pc EXCEPT ![c] = "proactive"]
    /\ UNCHANGED <<req, now, days, persona, assistant_msg_count, system_msg_count,
                   day, result, probe, graph>>

\* 2) Drop-off logic
DropOff(c) ==
    /\ pc[c] = "dropoff"
    /\ LET cur == current_stage[c]
           d == random(rnd[c])
           m == _client_message_for("Lost", d.rnd)
       IN  IF terminal(cur) THEN
               UNCHANGED <<rnd, current_stage, events, client_msg_count>>
           ELSE IF ~(d.value < persona[c].drop_off_chance) THEN
               /\ rnd' = [rnd EXCEPT ![c] = d.rnd]
               /\ UNCHANGED <<current_stage, events, client_msg_count>>
           ELSE
               /\ events' = [events EXCEPT ![c] =
                      Append(@, SimEvent(day[c], "client", cur, "Lost", m.message,
                                         time_label(c, 0)))]
               /\ client_msg_count' = [client_msg_count EXCEPT ![c] = @ + 1]
               /\ current_stage' = [current_stage EXCEPT ![c] = "Lost"]
               /\ rnd' = [rnd EXCEPT ![c] = m.rnd]
    /\ pc' = [pc EXCEPT ![c] = "proactive"]
    /\ UNCHANGED <<req, now, days, persona, assistant_msg_count, system_msg_count,
                   day, result, probe, graph>>

\* 3) Assistant proactive follow-up
Proactive(c) ==
    /\ pc[c] = "proactive"
    /\ LET cur == current_stage[c]
           d == random(rnd[c])
           m == _assistant_message_for(cur, d.rnd)
           a == random(m.rnd)
           maybe_new == IF a.value < 30 THEN _next_stage(cur, TRUE, a.rnd)
                        ELSE Returned(cur, a.rnd)
       IN  IF terminal(cur) THEN
               /\ pc' = [pc EXCEPT ![c] = "revival"]
               /\ UNCHANGED <<rnd, current_stage, events, assistant_msg_count>>
           ELSE IF ~(d.value < persona[c].proactive_chance) THEN
               /\ pc' = [pc EXCEPT ![c] = "revival"]
               /\ rnd' = [rnd EXCEPT ![c] = d.rnd]
               /\ UNCHANGED <<current_stage, events, assistant_msg_count>>
           ELSE IF maybe_new.raised THEN
               /\ pc' = [pc EXCEPT ![c] = "raised"]
               /\ UNCHANGED <<rnd, current_stage, events, assistant_msg_count>>
           ELSE
               /\ events' = [events EXCEPT ![c] =
                      Append(@, SimEvent(day[c], "assistant", cur, maybe_new.stage,
                                         m.message, time_label(c, 6)))]
               /\ assistant_msg_count' = [assistant_msg_count EXCEPT ![c] = @ + 1]
               /\ current_stage' = [current_stage EXCEPT ![c] = maybe_new.stage]
               /\ rnd' = [rnd EXCEPT ![c] = maybe_new.rnd]
               /\ pc' = [pc EXCEPT ![c] = "revival"]
    /\ UNCHANGED <<req, now, days, persona, client_msg_count, system_msg_count,
                   day, result, probe, graph>>

\* mutant: the revival is not counted
Revival_uncounted(c) ==
    /\ pc[c] = "revival"
    /\ LET d == random(rnd[c])
       IN  IF current_stage[c] # "Lost" THEN
               UNCHANGED <<rnd, current_stage, events, client_msg_count>>
           ELSE IF ~(d.value < persona[c].revive_chance) THEN
               /\ rnd' = [rnd EXCEPT ![c] = d.rnd]
               /\ UNCHANGED <<current_stage, events, client_msg_count>>
           ELSE
               /\ events' = [events EXCEPT ![c] =
                      Append(@, SimEvent(day[c], "client", "Lost", revived_stage,
                                         Message("client", "revived", 1),
                                         time_label(c, 9)))]
               /\ current_stage' = [current_stage EXCEPT ![c] = revived_stage]
               /\ rnd' = [rnd EXCEPT ![c] = d.rnd]
               /\ UNCHANGED client_msg_count
    /\ pc' = [pc EXCEPT ![c] = "summary"]
    /\ UNCHANGED <<req, now, days, persona, assistant_msg_count, system_msg_count,
                   day, result, probe, graph>>

\* 4) Revival from Lost
Revival(c) ==
    /\ pc[c] = "revival"
    /\ LET d == random(rnd[c])
       IN  IF current_stage[c] # "Lost" THEN
               UNCHANGED <<rnd, current_stage, events, client_msg_count>>
           ELSE IF ~(d.value < persona[c].revive_chance) THEN
               /\ rnd' = [rnd EXCEPT ![c] = d.rnd]
               /\ UNCHANGED <<current_stage, events, client_msg_count>>
           ELSE
               /\ events' = [events EXCEPT ![c] =
                      Append(@, SimEvent(day[c], "client", "Lost", revived_stage,
                                         Message("client", "revived", 1),
                                         time_label(c, 9)))]
               /\ client_msg_count' = [client_msg_count EXCEPT ![c] = @ + 1]
               /\ current_stage' = [current_stage EXCEPT ![c] = revived_stage]
               /\ rnd' = [rnd EXCEPT ![c] = d.rnd]
    /\ pc' = [pc EXCEPT ![c] = "summary"]
    /\ UNCHANGED <<req, now, days, persona, assistant_msg_count, system_msg_count,
                   day, result, probe, graph>>

\* mutant: the summary carries a 0-based day index
system_event_zero_based(c) ==
    LET cur == current_stage[c]
        converted == cur = "Converted"
        lost == cur = "Lost"
        summary == _system_summary_for(day[c], cur, converted, lost)
    IN  SimEvent(day[c] - 1, "system", cur, cur, summary, time_label(c, 20))

\* the SimEvent of step 5
system_event(c) ==
    LET cur == current_stage[c]
        converted == cur = "Converted"
        lost == cur = "Lost"
        summary == _system_summary_for(day[c], cur, converted, lost)
    IN  SimEvent(day[c], "system", cur, cur, summary, time_label(c, 20))

\* mutant: the day loop is left as soon as the stage is Converted or Lost
SystemSummary_break(c) ==
    /\ pc[c] = "summary"
    /\ events' = [events EXCEPT ![c] = Append(@, system_event(c))]
    /\ system_msg_count' = [system_msg_count EXCEPT ![c] = @ + 1]
    /\ IF day[c] < days[c] /\ ~terminal(current_stage[c])
       THEN /\ day' = [day EXCEPT ![c] = @ + 1]
            /\ pc' = [pc EXCEPT ![c] = "reply"]
       ELSE /\ pc' = [pc EXCEPT ![c] = "return"]
            /\ UNCHANGED day
    /\ UNCHANGED <<req, now, days, persona, rnd, current_stage, client_msg_count,
                   assistant_msg_count, result, probe, graph>>

\* 5) System summary event, and the step of the day loop
SystemSummary(c) ==
    /\ pc[c] = "summary"
    /\ events' = [events EXCEPT ![c] = Append(@, system_event(c))]
    /\ system_msg_count' = [system_msg_count EXCEPT ![c] = @ + 1]
    /\ IF day[c] < days[c]
       THEN /\ day' = [day EXCEPT ![c] = @ + 1]
            /\ pc' = [pc EXCEPT ![c] = "reply"]
       ELSE /\ pc' = [pc EXCEPT ![c] = "return"]
            /\ UNCHANGED day
    /\ UNCHANGED <<req, now, days, persona, rnd, current_stage, client_msg_count,
                   assistant_msg_count, result, probe, graph>>

\* mutant: all() instead of any()
converted_flag_all(evs) == \A i \in 1..Len(evs) : evs[i].stage_after = "Converted"

\* converted_flag = any(e.stage_after == "Converted" for e in events)
converted_flag(evs) == \E i \in 1..Len(evs) : evs[i].stage_after = "Converted"

\* mutant: the total leaves the system messages out
stats_without_system(c) ==
    [client_messages |-> client_msg_count[c],
     assistant_messages |-> assistant_msg_count[c],
     system_messages |-> system_msg_count[c],
     total_messages |-> client_msg_count[c] + assistant_msg_count[c]]

\* the "stats" entry of the returned dict
stats(c) ==
    [client_messages |-> client_msg_count[c],
     assistant_messages |-> assistant_msg_count[c],
     system_messages |-> system_msg_count[c],
     total_messages |-> client_msg_count[c] + assistant_msg_count[c]
                        + system_msg_count[c]]

\* the dict run_client_simulation returns
result_of(c) ==
    [persona_key |-> persona[c].key,
     persona_label |-> persona[c].label,
     persona_description |-> persona[c].description,
     days |-> days[c],
     final_stage |-> current_stage[c],
     converted |-> converted_flag(events[c]),
     events |-> events[c],
     graphs |-> build_conversation_graph(events[c], days[c]),
     stats |-> stats(c)]

\* the return: the result is handed to the caller and the frame is gone
Return(c) ==
    /\ pc[c] = "return"
    /\ result' = [result EXCEPT ![c] = result_of(c)]
    /\ pc' = [pc EXCEPT ![c] = "done"]
    /\ days' = [days EXCEPT ![c] = 0]
    /\ persona' = [persona EXCEPT ![c] = None]
    /\ rnd' = [rnd EXCEPT ![c] = 0]
    /\ current_stage' = [current_stage EXCEPT ![c] = ""]
    /\ events' = [events EXCEPT ![c] = <<>>]
    /\ client_msg_count' = [client_msg_count EXCEPT ![c] = 0]
    /\ assistant_msg_count' = [assistant_msg_count EXCEPT ![c] = 0]
    /\ system_msg_count' = [system_msg_count EXCEPT ![c] = 0]
    /\ day' = [day EXCEPT ![c] = 0]
    /\ UNCHANGED <<req, now, probe, graph>>

Next ==
    \E c \in Sequential :
        \/ Call(c)
        \/ ClientReply(c)
        \/ DropOff(c)
        \/ Proactive(c)
        \/ Revival(c)
        \/ SystemSummary(c)
        \/ Return(c)

Spec == Init /\ [][Next]_vars

\* one call, from its entry to its return
NextFair ==
    \E c \in {1} :
        \/ Call(c)
        \/ ClientReply(c)
        \/ DropOff(c)
        \/ Proactive(c)
        \/ Revival(c)
        \/ SystemSummary(c)
        \/ Return(c)

\* a call that has a step to take takes it: the interpreter does not stop
\* in the middle of a call
SpecFair == Init /\ [][NextFair]_vars /\ WF_vars(NextFair)

-----------------------------------------------------------------------------
(* Concurrent callers: call 1 runs alone, then calls 2 and 3 run with their *)
(* day steps interleaved in any order; call 2 repeats call 1 at the same    *)
(* clock reading, call 3 reads the clock on its own.                        *)

InitConc ==
    /\ \E r \in Requests : r.days = MinDays /\ req = [c \in Calls |-> r]
    /\ Idle
    /\ probe = NoProbe
    /\ graph = NoGraph

\* a call entered while another call may be between two of its day steps
ConcCall(c) ==
    /\ c \in Concurrent
    /\ pc[c] = "idle"
    /\ pc[1] = "done"
    /\ \E t \in Clocks :
        /\ t >= now[1]
        /\ c = 2 => t = now[1]
        /\ Enter(c, t)

NextConc ==
    \E c \in Calls :
        \/ c = 1 /\ Call(c)
        \/ ConcCall(c)
        \/ ClientReply(c)
        \/ DropOff(c)
        \/ Proactive(c)
        \/ Revival(c)
        \/ SystemSummary(c)
        \/ Return(c)

SpecConc == InitConc /\ [][NextConc]_vars

-----------------------------------------------------------------------------
(* _next_stage called directly, on every stage, signal and generator state *)

\* the Stage literals and one stage that _STAGE_FLOW does not list
ProbeStages == Stage \cup {"Nurture"}

InitProbe ==
    /\ req = [c \in Calls |-> [days |-> MinDays, persona_key |-> "hot_lead", seed |-> None]]
    /\ Idle
    /\ \E s \in ProbeStages, b \in BOOLEAN, r \in 0..999 :
           probe = [current |-> s, positive |-> b, rnd |-> r, ret |-> "pending",
                    rnd_after |-> r]
    /\ graph = NoGraph

ProbeCall ==
    /\ probe.ret = "pending"
    /\ LET n == _next_stage(probe.current, probe.positive, probe.rnd)
       IN  probe' = [probe EXCEPT !.ret = IF n.raised THEN "raised" ELSE n.stage,
                                  !.rnd_after = n.rnd]
    /\ UNCHANGED <<req, now, pc, days, persona, rnd, current_stage, events,
                   client_msg_count, assistant_msg_count, system_msg_count, day, result, graph>>

NextProbe == ProbeCall

SpecProbe == InitProbe /\ [][NextProbe]_vars

ProbeReturned == probe.ret \notin {"none", "pending"}

-----------------------------------------------------------------------------
(* build_conversation_graph called directly, on arbitrary event lists *)

\* the events argument holds at most this many events
MaxGraphEvents == 3

\* the day_index values of the events, in and beyond the days argument
GraphDayIndex == 1..3

\* the days argument: short of the last day_index, and reaching it
GraphDays == {2, 3}

\* the stage_after values of the events: the default stage and two others
GraphStages == {"New", "Warm", "Lost"}

GraphEvent ==
    {SimEvent(d, a, "New", s, Message(a, s, 1), [day_label |-> d, clock |-> strftime(0)]) :
         d \in GraphDayIndex, a \in Actor, s \in GraphStages}

GraphEventLists == UNION {[1..k -> GraphEvent] : k \in 0..MaxGraphEvents}

InitGraph ==
    /\ req = [c \in Calls |-> [days |-> MinDays, persona_key |-> "hot_lead", seed |-> None]]
    /\ Idle
    /\ probe = NoProbe
    /\ \E evs \in GraphEventLists, n \in GraphDays :
           graph = [NoGraph EXCEPT !.events = evs, !.days = n, !.at = "pending"]

GraphCall ==
    /\ graph.at = "pending"
    /\ graph' = [graph EXCEPT !.at = "returned",
                              !.ret = build_conversation_graph(graph.events, graph.days)]
    /\ UNCHANGED <<req, now, pc, days, persona, rnd, current_stage, events,
                   client_msg_count, assistant_msg_count, system_msg_count, day, result,
                   probe>>

NextGraph == GraphCall

SpecGraph == InitGraph /\ [][NextGraph]_vars

GraphReturned == graph.at = "returned"

-----------------------------------------------------------------------------
(* Properties *)

\* result[c] is the result returned last: every result is examined in the
\* state in which it is returned
Fresh(c) == pc[c] = "done" /\ \A k \in Calls : k > c => pc[k] = "idle"

\* the forward order of the stages
Forward == <<"New", "Inquiry", "Engaged", "Warm", "Active", "Hot", "High Intent",
             "Under Contract", "Converted">>

BeforeConverted == {Forward[i] : i \in 1..(Len(Forward) - 1)}

Min2(a, b) == IF a <= b THEN a ELSE b
Max2(a, b) == IF a >= b THEN a ELSE b

\* C1: two calls with the same persona_key, days and supplied seed return
\* identical events lists, in every field of every event, whatever the
\* wall-clock times of the two calls.
C1_SameEventsWhateverTheClock ==
    \A a, b \in Calls :
        (pc[a] = "done" /\ pc[b] = "done" /\ req[a] = req[b] /\ req[a].seed # None)
            => result[a].events = result[b].events

\* C2: for every supplied integer seed, 0 included, the generator of the run
\* is seeded with exactly that value; only an omitted seed is replaced by the
\* wall clock.  (pc = "reply" on day 1 is the state the entry leaves.)
C2_SuppliedSeedSeedsTheGenerator ==
    \A c \in Calls :
        (pc[c] = "reply" /\ day[c] = 1 /\ events[c] = <<>> /\ req[c].seed # None)
            => rnd[c] = RandomSeed(req[c].seed[1])

\* C3: _next_stage(current, positive=True, rnd) returns Converted for every
\* generator state when current is Under Contract.
C3_UnderContractAlwaysConverts ==
    (ProbeReturned /\ probe.positive /\ probe.current = "Under Contract")
        => probe.ret = "Converted"

\* C4: in every run, once an event has stage_after = Converted, no later event
\* has stage_after among New .. Under Contract.
C4_ConvertedIsTerminal ==
    \A c \in Calls :
        Fresh(c) =>
            LET ev == result[c].events
            IN  \A j \in 1..Len(ev) :
                    ev[j].stage_after \in BeforeConverted
                        => \A i \in 1..(j - 1) : ev[i].stage_after # "Converted"

\* a run converted before its last day and went on through the later days
C4_Witness ==
    \E c \in Calls :
        /\ Fresh(c)
        /\ \E i \in 1..Len(result[c].events) :
               /\ result[c].events[i].stage_after = "Converted"
               /\ result[c].events[i].actor # "system"
               /\ result[c].events[i].day_index < result[c].days

\* C5: the event that immediately follows an event with stage_after = Lost has
\* stage_after in {Lost, Warm}, and every event with stage_before = Lost and
\* stage_after # Lost is a client event with stage_after = Warm.
C5_RevivalIsTheSoleExitFromLost ==
    \A c \in Calls :
        Fresh(c) =>
            LET ev == result[c].events
            IN  \A i \in 1..Len(ev) :
                    /\ (i < Len(ev) /\ ev[i].stage_after = "Lost")
                           => ev[i + 1].stage_after \in {"Lost", "Warm"}
                    /\ (ev[i].stage_before = "Lost" /\ ev[i].stage_after # "Lost")
                           => (ev[i].actor = "client" /\ ev[i].stage_after = "Warm")

\* a run dropped off, stayed Lost over a day and then revived
C5_Witness ==
    \E c \in Calls :
        /\ Fresh(c)
        /\ \E i \in 2..Len(result[c].events) :
               /\ result[c].events[i].stage_before = "Lost"
               /\ result[c].events[i].stage_after # "Lost"
               /\ result[c].events[i - 1].actor = "system"
               /\ result[c].events[i - 1].stage_after = "Lost"

\* C6: no persona_key makes the call raise; result.persona_key is persona_key
\* when the catalog has it and hot_lead otherwise, and label and description
\* are those of that persona.
C6_UnknownPersonaFallsBack ==
    \A c \in Calls :
        /\ pc[c] # "raised"
        /\ pc[c] = "done" =>
               LET k == req[c].persona_key
                   resolved == IF k \in DOMAIN _PERSONAS THEN k ELSE "hot_lead"
               IN  /\ result[c].persona_key = resolved
                   /\ result[c].persona_label = _PERSONAS[resolved].label
                   /\ result[c].persona_description = _PERSONAS[resolved].description

\* a call with a key the catalog does not have returned
C6_Witness ==
    \E c \in Calls :
        /\ pc[c] = "done"
        /\ req[c].persona_key \notin DOMAIN _PERSONAS
        /\ result[c].persona_key = "hot_lead"

\* C7: no days makes the call raise, and result.days = min(max(days, 7), 90),
\* hence 7 <= result.days <= 90.
C7_DaysClamped ==
    \A c \in Calls :
        /\ pc[c] # "raised"
        /\ pc[c] = "done" =>
               /\ result[c].days = Min2(Max2(req[c].days, MinDays), MaxDays)
               /\ MinDays <= result[c].days
               /\ result[c].days <= MaxDays

\* a call asking for more than 90 days returned 90
C7_Witness ==
    \E c \in Calls :
        pc[c] = "done" /\ req[c].days > MaxDays /\ result[c].days = MaxDays

\* C8: _next_stage called with positive=True on a non-absorbing stage that
\* _STAGE_FLOW does not list fails: it returns no stage.
C8_LookupFailureIsFatal ==
    (/\ ProbeReturned
     /\ probe.positive
     /\ probe.current \notin {"Converted", "Lost", "Won"}
     /\ \A i \in 1..Len(_STAGE_FLOW) : _STAGE_FLOW[i] # probe.current)
        => probe.ret = "raised"

\* C8 as amended: that call does not fail; it returns current unchanged and
\* leaves the generator as it was, so the simulation continues.
C8_LookupFailureIsSwallowed ==
    (/\ ProbeReturned
     /\ probe.positive
     /\ probe.current \notin {"Converted", "Lost", "Won"}
     /\ \A i \in 1..Len(_STAGE_FLOW) : _STAGE_FLOW[i] # probe.current)
        => (probe.ret = probe.current /\ probe.rnd_after = probe.rnd)

\* _next_stage returned from a positive call on the unlisted stage
C8_Witness ==
    /\ ProbeReturned
    /\ probe.positive
    /\ probe.current = "Nurture"
    /\ probe.ret = "Nurture"

\* C9: for every day d in 1..result.days there is exactly one system event
\* with day_index d, it is the last event of that day and its stage_before
\* equals its stage_after, the stage held at the end of day d (the stage the
\* preceding event left, or the starting stage); the run has exactly
\* result.days system events.
C9_OneSystemEventClosesEachDay ==
    \A c \in Calls :
        Fresh(c) =>
            LET ev == result[c].events
                sys == {i \in 1..Len(ev) : ev[i].actor = "system"}
            IN  /\ Cardinality(sys) = result[c].days
                /\ \A i \in sys : /\ ev[i].day_index \in 1..result[c].days
                                  /\ ev[i].stage_before = ev[i].stage_after
                                  /\ ev[i].stage_after =
                                         IF i = 1
                                         THEN _PERSONAS[result[c].persona_key].starting_stage
                                         ELSE ev[i - 1].stage_after
                                  /\ \A j \in (i + 1)..Len(ev) :
                                         ev[j].day_index # ev[i].day_index
                /\ \A d \in 1..result[c].days :
                       Cardinality({i \in sys : ev[i].day_index = d}) = 1

\* a returned run with a day of four events, the system event the last
C9_Witness ==
    \E c \in Calls :
        /\ Fresh(c)
        /\ \E i \in 4..Len(result[c].events) :
               /\ result[c].events[i].actor = "system"
               /\ result[c].events[i - 3].day_index = result[c].events[i].day_index

\* C10: for every stage and every generator state, _next_stage with
\* positive=True returns current or the stage immediately after current in
\* the forward order New .. Converted: no stage is skipped.
C10_NoStageSkipped ==
    (ProbeReturned /\ probe.positive)
        => \/ probe.ret = probe.current
           \/ \E i \in 1..(Len(Forward) - 1) :
                  Forward[i] = probe.current /\ Forward[i + 1] = probe.ret

\* C10, its consequence for the runs: every client-reply event and every
\* assistant event has stage_after equal to stage_before or to its immediate
\* successor in the forward order.
C10_EventsAdvanceAtMostOneStage ==
    \A c \in Calls :
        Fresh(c) =>
            LET ev == result[c].events
            IN  \A i \in 1..Len(ev) :
                    (\/ ev[i].actor = "assistant"
                     \/ ev[i].actor = "client" /\ ev[i].message.key \notin {"Lost", "revived"})
                        => \/ ev[i].stage_after = ev[i].stage_before
                           \/ \E k \in 1..(Len(Forward) - 1) :
                                  /\ Forward[k] = ev[i].stage_before
                                  /\ Forward[k + 1] = ev[i].stage_after

\* a positive call advanced Hot to High Intent
C10_Witness ==
    /\ ProbeReturned
    /\ probe.positive
    /\ probe.current = "Hot"
    /\ probe.ret = "High Intent"

\* C11: result.converted is true if and only if at least one event of
\* result.events has stage_after = Converted.
C11_ConvertedIffSomeEventConverted ==
    \A c \in Calls :
        Fresh(c) =>
            (result[c].converted
                <=> \E i \in 1..Len(result[c].events) :
                        result[c].events[i].stage_after = "Converted")

\* a run with a Converted event returned converted = true
C11_Witness ==
    \E c \in Calls :
        /\ Fresh(c)
        /\ result[c].converted
        /\ \E i \in 1..Len(result[c].events) :
               /\ result[c].events[i].stage_after = "Converted"
               /\ result[c].events[i].stage_before # "Converted"

\* C12: stats.total_messages = len(events), and it is the sum of the three
\* per-actor counters.
C12_MessagesConserved ==
    \A c \in Calls :
        Fresh(c) =>
            /\ result[c].stats.total_messages = Len(result[c].events)
            /\ result[c].stats.total_messages =
                   result[c].stats.client_messages + result[c].stats.assistant_messages
                   + result[c].stats.system_messages

\* a returned run with messages of all three actors
C12_Witness ==
    \E c \in Calls :
        /\ Fresh(c)
        /\ result[c].stats.client_messages > 0
        /\ result[c].stats.assistant_messages > 0
        /\ result[c].stats.system_messages > 0

\* C13: len(graphs.stage_timeline) = result.days = len(graphs.message_timeline),
\* and the entries of each timeline carry day = 1, 2, ..., result.days in order.
C13_TimelinesHaveOneEntryPerDay ==
    \A c \in Calls :
        Fresh(c) =>
            LET g == result[c].graphs
            IN  /\ Len(g.stage_timeline) = result[c].days
                /\ Len(g.message_timeline) = result[c].days
                /\ \A d \in 1..Len(g.stage_timeline) : g.stage_timeline[d].day = d
                /\ \A d \in 1..Len(g.message_timeline) : g.message_timeline[d].day = d

\* a run whose requested days were clamped returned its graphs
C13_Witness ==
    \E c \in Calls :
        /\ Fresh(c)
        /\ req[c].days # result[c].days
        /\ Len(result[c].graphs.stage_timeline) = result[c].days

\* C14: the events are in day order, and every day_index lies in
\* 1..result.days.
C14_EventsInDayOrder ==
    \A c \in Calls :
        Fresh(c) =>
            LET ev == result[c].events
            IN  \A i \in 1..Len(ev) :
                    /\ ev[i].day_index \in 1..result[c].days
                    /\ i < Len(ev) => ev[i].day_index <= ev[i + 1].day_index

\* a returned run with two events on its first day and events on its last
C14_Witness ==
    \E c \in Calls :
        /\ Fresh(c)
        /\ Len(result[c].events) > 2
        /\ result[c].events[2].day_index = 1
        /\ result[c].events[Len(result[c].events)].day_index = result[c].days

\* the kind of an event, in the order of the steps of a day: client reply,
\* drop-off (client event into Lost), assistant, revival (client event from
\* Lost to Warm), system summary
KindRank(e) ==
    IF e.actor = "system" THEN 5
    ELSE IF e.actor = "assistant" THEN 3
    ELSE IF e.stage_before = "Lost" /\ e.stage_after = "Warm" THEN 4
    ELSE IF e.stage_after = "Lost" THEN 2
    ELSE 1

\* C20: within each day the events appear as at most one client reply, then
\* at most one drop-off, then at most one assistant event, then at most one
\* revival, then the system summary: no kind twice, none after a later kind.
C20_FixedOrderWithinADay ==
    \A c \in Calls :
        Fresh(c) =>
            LET ev == result[c].events
            IN  \A i, j \in 1..Len(ev) :
                    (i < j /\ ev[i].day_index = ev[j].day_index)
                        => KindRank(ev[i]) < KindRank(ev[j])

\* a day with a reply, a drop-off, a revival and the summary, in that order
C20_Witness ==
    \E c \in Calls :
        /\ Fresh(c)
        /\ \E i \in 4..Len(result[c].events) :
               LET ev == result[c].events
               IN  /\ ev[i].actor = "system"
                   /\ ev[i - 3].day_index = ev[i].day_index
                   /\ KindRank(ev[i - 3]) = 1
                   /\ KindRank(ev[i - 2]) = 2
                   /\ KindRank(ev[i - 1]) = 4

\* the positions of the events of day d in the list given to the graph builder
EventsOfDay(d) == {i \in 1..Len(graph.events) : graph.events[i].day_index = d}

\* C17: build_conversation_graph(events, days), for any event list: on a day
\* d with events, stage_timeline[d].stage is the stage_after of the last event
\* of day d in list order; on a day d >= 2 without events it is
\* stage_timeline[d - 1].stage.
C17_StageCarriedForward ==
    GraphReturned =>
        LET st == graph.ret.stage_timeline
        IN  \A d \in 1..graph.days :
                /\ \A i \in EventsOfDay(d) :
                       (\A j \in EventsOfDay(d) : j <= i)
                           => st[d].stage = graph.events[i].stage_after
                /\ (EventsOfDay(d) = {} /\ d >= 2) => st[d].stage = st[d - 1].stage

\* a day with two events that end in different stages, followed by a day
\* without events
C17_Witness ==
    /\ GraphReturned
    /\ \E d \in 2..graph.days :
           /\ EventsOfDay(d) = {}
           /\ \E i, j \in EventsOfDay(d - 1) :
                  /\ i < j
                  /\ graph.events[i].stage_after # graph.events[j].stage_after
                  /\ graph.events[j].stage_after # "New"

C19_MessageCountsPerDayAndActor ==
    GraphReturned =>
        LET mt == graph.ret.message_timeline
        IN  /\ DOMAIN mt = 1..graph.days
            /\ \A d \in 1..graph.days :
                   /\ \A a \in Actor :
                          mt[d][a] = Cardinality({i \in EventsOfDay(d) : graph.events[i].actor = a})
                   /\ EventsOfDay(d) = {} => \A a \in Actor : mt[d][a] = 0

\* a day with two events of one actor and one of another, a later day without
\* events
C19_Witness ==
    /\ GraphReturned
    /\ \E d \in 1..graph.days, a, b \in Actor :
           /\ graph.ret.message_timeline[d][a] = 2
           /\ graph.ret.message_timeline[d][b] = 1
    /\ \E d \in 2..graph.days : EventsOfDay(d) = {} /\ EventsOfDay(d - 1) # {}

\* C15: a run whose day steps are interleaved in any order with those of
\* another run returns exactly the result it returns when executed alone with
\* the same inputs, clock reading and RNG stream; no step of the other run
\* changes what it has built so far, which is at every step the beginning of
\* what the run alone built.
C15_InterleavedRunsReturnTheResultOfTheRunAlone ==
    \A c \in Concurrent :
        (now[c] = now[1] /\ req[c] = req[1]) =>
            /\ pc[c] = "done" => result[c] = result[1]
            /\ pc[c] \notin {"idle", "done"} =>
                   /\ Len(events[c]) <= Len(result[1].events)
                   /\ events[c] = SubSeq(result[1].events, 1, Len(events[c]))

\* call 2 returns while call 3, which drew from a generator of its own, is
\* between two day steps of a later day
C15_Witness ==
    /\ pc[2] = "done"
    /\ result[2] = result[1]
    /\ result[2].stats.client_messages > 0
    /\ pc[3] \in {"reply", "dropoff", "proactive", "revival", "summary"}
    /\ day[3] > 1
    /\ events[3] # SubSeq(result[2].events, 1, Len(events[3]))

\* what a step does to the day loop of call c: the loop is entered at day 1,
\* the day changes only at the end of a day step, by one and not beyond days,
\* the loop is left only after the day step of day = days, and the result
\* reports that number of days
DayLoopStep(c) ==
    /\ (pc[c] = "idle" /\ pc'[c] # "idle") => (day'[c] = 1 /\ pc'[c] = "reply")
    /\ (pc[c] \notin {"idle", "return"} /\ day'[c] # day[c])
           => (pc[c] = "summary" /\ day'[c] = day[c] + 1 /\ day'[c] <= days[c])
    /\ (pc[c] # "return" /\ pc'[c] = "return")
           => (pc[c] = "summary" /\ day[c] = days[c]
               /\ Len(SelectSeq(events'[c], LAMBDA e : e.actor = "system")) = days[c])
    /\ (pc[c] = "return" /\ pc'[c] # "return")
           => (pc'[c] = "done" /\ result'[c].days = days[c]
               /\ result'[c].final_stage = current_stage[c])

\* C16: every call of run_client_simulation terminates: a call that was
\* entered returns a result, after exactly result.days day steps, made for
\* day = 1, 2, ..., result.days in increasing order, whether or not Converted
\* or Lost is ever reached.
C16_EveryCallTerminates ==
    /\ \A c \in Sequential : (pc[c] \notin {"idle", "done"}) ~> (pc[c] = "done")
    /\ [][\A c \in Sequential : DayLoopStep(c)]_vars

\* a call returned with an intermediate final_stage, no event of it having
\* reached Converted or Lost
C16_Witness ==
    \E c \in Sequential :
        /\ Fresh(c)
        /\ result[c].final_stage \notin {"Converted", "Lost"}
        /\ \A i \in 1..Len(result[c].events) :
               result[c].events[i].stage_after \notin {"Converted", "Lost"}
        /\ Len(result[c].events) > result[c].days

\* the client events of the drop-off step and of the revival step, told from
\* the replies by the message they carry
IsDropOff(e) == e.actor = "client" /\ e.message.key = "Lost"
IsRevival(e) == e.actor = "client" /\ e.message.key = "revived"
IsReply(e) == e.actor = "client" /\ ~IsDropOff(e) /\ ~IsRevival(e)

\* C21: no client-reply, drop-off or assistant event has stage_before in
\* {Converted, Lost}: an event with stage_before Lost is the revival event or
\* a system summary, an event with stage_before Converted is a system summary,
\* and it leaves the stage at Converted.
C21_NoStepFiresInATerminalStage ==
    \A c \in Calls :
        Fresh(c) =>
            \A i \in 1..Len(result[c].events) :
                LET e == result[c].events[i]
                IN  /\ (IsReply(e) \/ IsDropOff(e) \/ e.actor = "assistant")
                           => e.stage_before \notin {"Converted", "Lost"}
                    /\ e.stage_before = "Lost"
                           => (IsRevival(e) \/ (e.actor = "system" /\ e.stage_after = "Lost"))
                    /\ e.stage_before = "Converted"
                           => (e.actor = "system" /\ e.stage_after = "Converted")

\* a run with a day spent in Lost or in Converted on which nothing but the
\* summary was emitted
C21_Witness ==
    \E c \in Calls :
        /\ Fresh(c)
        /\ \E i \in 2..Len(result[c].events), s \in {"Converted", "Lost"} :
               /\ result[c].events[i].actor = "system"
               /\ result[c].events[i].stage_before = s
               /\ result[c].events[i - 1].actor = "system"
               /\ result[c].events[i - 1].stage_before = s

\* call c is at one of the five steps of a day
InDayStep(c) == pc[c] \in {"reply", "dropoff", "proactive", "revival", "summary"}

\* the counter of actor a in the counters cl, as, sy
CounterOf(a, cl, as, sy) == IF a = "client" THEN cl ELSE IF a = "assistant" THEN as ELSE sy

\* a step of call c leaves the event list alone or appends one event to it,
\* and moves the counters by exactly that event
AppendsAndCounts(c) ==
    \/ /\ events'[c] = events[c]
       /\ client_msg_count'[c] = client_msg_count[c]
       /\ assistant_msg_count'[c] = assistant_msg_count[c]
       /\ system_msg_count'[c] = system_msg_count[c]
    \/ /\ Len(events'[c]) = Len(events[c]) + 1
       /\ SubSeq(events'[c], 1, Len(events[c])) = events[c]
       /\ \A a \in Actor :
              CounterOf(a, client_msg_count'[c], assistant_msg_count'[c], system_msg_count'[c])
                  = CounterOf(a, client_msg_count[c], assistant_msg_count[c], system_msg_count[c])
                    + (IF events'[c][Len(events'[c])].actor = a THEN 1 ELSE 0)

\* what a day step of call c leaves alone besides the generator: the
\* arguments, the clock reading, the clamped days, the persona, the results
\* and everything of the other calls
LeavesTheRestAlone(c) ==
    /\ UNCHANGED <<req, now, result, probe, graph>>
    /\ days'[c] = days[c]
    /\ persona'[c] = persona[c]
    /\ \A k \in Calls \ {c} :
           /\ events'[k] = events[k]
           /\ current_stage'[k] = current_stage[k]
           /\ rnd'[k] = rnd[k]
           /\ client_msg_count'[k] = client_msg_count[k]
           /\ assistant_msg_count'[k] = assistant_msg_count[k]
           /\ system_msg_count'[k] = system_msg_count[k]

\* at every point of a run each counter is the number of events of its actor
CountersCountEvents(c) ==
    \A a \in Actor :
        CounterOf(a, client_msg_count[c], assistant_msg_count[c], system_msg_count[c])
            = Cardinality({i \in 1..Len(events[c]) : events[c][i].actor = a})

\* C22 as stated: a day step changes nothing but the event list, the three
\* counters and current_stage, so the state of the generator is among what
\* it leaves unchanged; the list only grows by appending and the counters
\* count the events.
C22_DayStepChangesOnlyEventsCountersAndStage ==
    /\ [](\A c \in Calls : InDayStep(c) => CountersCountEvents(c))
    /\ [][\A c \in Calls :
              InDayStep(c) =>
                  /\ LeavesTheRestAlone(c)
                  /\ rnd'[c] = rnd[c]
                  /\ AppendsAndCounts(c)]_vars

\* C22: a day step changes nothing but the run's event list, its three
\* counters, current_stage and the state of the run's generator, which every
\* draw advances; the event list after a step has the list before it as a
\* prefix, each appended event increases exactly the counter of its own actor
\* by one, and at every point each counter is the number of events of its
\* actor.
C22_DayStepAlsoAdvancesTheGenerator ==
    /\ [](\A c \in Calls : InDayStep(c) => CountersCountEvents(c))
    /\ [][\A c \in Calls :
              InDayStep(c) =>
                  /\ LeavesTheRestAlone(c)
                  /\ AppendsAndCounts(c)]_vars

\* a run in the middle of its days that has appended events of all three
\* actors, the revival among them, and has drawn from its generator
C22_Witness ==
    \E c \in Calls :
        /\ InDayStep(c)
        /\ assistant_msg_count[c] > 0
        /\ system_msg_count[c] > 0
        /\ \E i \in 1..Len(events[c]) : IsRevival(events[c][i])
        /\ rnd[c] # RandomSeed(seed_or_now(req[c].seed, now[c]))

\* C23: the events of a run form an unbroken stage chain: the first event's
\* stage_before is the starting_stage of the resolved persona, each event's
\* stage_before is the stage_after of the event before it, and
\* result.final_stage is the stage_after of the last event.
C23_UnbrokenStageChain ==
    \A c \in Calls :
        Fresh(c) =>
            LET ev == result[c].events
            IN  /\ ev # <<>>
                /\ ev[1].stage_before = _get_persona(req[c].persona_key).starting_stage
                /\ \A i \in 1..(Len(ev) - 1) : ev[i + 1].stage_before = ev[i].stage_after
                /\ result[c].final_stage = ev[Len(ev)].stage_after

\* a run that advanced, dropped off and revived, and ended away from the
\* stage it started at
C23_Witness ==
    \E c \in Calls :
        /\ Fresh(c)
        /\ result[c].final_stage # result[c].events[1].stage_before
        /\ \E i, j, k \in 1..Len(result[c].events) :
               /\ i < j /\ j < k
               /\ IsReply(result[c].events[i])
               /\ result[c].events[i].stage_after # result[c].events[i].stage_before
               /\ IsDropOff(result[c].events[j])
               /\ IsRevival(result[c].events[k])

\* an event without its time_label
Untimed(e) ==
    [day_index |-> e.day_index, actor |-> e.actor, stage_before |-> e.stage_before,
     stage_after |-> e.stage_after, message |-> e.message]

\* C24: for every persona_key, days and non-zero seed, two calls made at any
\* two wall-clock times return the same final_stage, converted, stats and
\* graphs, and the same events in every field but time_label.
C24_NonZeroSeedDecidesAllButTimeLabel ==
    \A a, b \in Calls :
        (pc[a] = "done" /\ pc[b] = "done" /\ req[a] = req[b]
         /\ req[a].seed # None /\ req[a].seed # <<0>>)
            => /\ result[a].final_stage = result[b].final_stage
               /\ result[a].converted = result[b].converted
               /\ result[a].stats = result[b].stats
               /\ result[a].graphs = result[b].graphs
               /\ Len(result[a].events) = Len(result[b].events)
               /\ \A i \in 1..Len(result[a].events) :
                      Untimed(result[a].events[i]) = Untimed(result[b].events[i])

\* two calls with a non-zero seed returned at different clock readings, with
\* different time labels
C24_Witness ==
    /\ pc[1] = "done" /\ pc[2] = "done"
    /\ req[1] = req[2]
    /\ req[1].seed # None /\ req[1].seed # <<0>>
    /\ now[1] # now[2]
    /\ result[1].events[1].time_label # result[2].events[1].time_label
    /\ result[1].stats.client_messages > 0

\* C25: in every result, converted is true if and only if final_stage is
\* Converted: a run that ever reaches Converted ends in Converted, and a run
\* that ends in Lost or an intermediate stage has converted = false.
C25_ConvertedIffFinalStageConverted ==
    \A c \in Calls :
        Fresh(c) =>
            /\ result[c].converted <=> (result[c].final_stage = "Converted")
            /\ (\E i \in 1..Len(result[c].events) :
                    "Converted" \in {result[c].events[i].stage_before,
                                     result[c].events[i].stage_after})
                   => result[c].final_stage = "Converted"

\* a run that converted before its last day and went through the steps of
\* the days that followed
C25_Witness ==
    \E c \in Calls :
        /\ Fresh(c)
        /\ result[c].converted
        /\ \E i \in 1..Len(result[c].events) :
               /\ result[c].events[i].stage_before # "Converted"
               /\ result[c].events[i].stage_after = "Converted"
               /\ result[c].events[i].day_index + 2 <= result[c].days

\* C26: the stage Won is never reached: no event has stage_before or
\* stage_after Won, final_stage is never Won and no stage_timeline entry is
\* Won.
C26_WonIsNeverReached ==
    \A c \in Calls :
        Fresh(c) =>
            /\ \A i \in 1..Len(result[c].events) :
                   /\ result[c].events[i].stage_before # "Won"
                   /\ result[c].events[i].stage_after # "Won"
            /\ result[c].final_stage # "Won"
            /\ \A d \in 1..Len(result[c].graphs.stage_timeline) :
                   result[c].graphs.stage_timeline[d].stage # "Won"

\* a run that advanced from Under Contract, the place of _STAGE_FLOW two
\* before Won, and ran on for days after it
C26_Witness ==
    \E c \in Calls :
        /\ Fresh(c)
        /\ \E i \in 1..Len(result[c].events) :
               /\ result[c].events[i].stage_before = "Under Contract"
               /\ result[c].events[i].stage_after = "Converted"
               /\ result[c].events[i].day_index < result[c].days

\* C27: every entry into Lost is a drop-off: an event with stage_before not
\* Lost and stage_after Lost is a client event of the drop-off step, and no
\* client-reply event and no assistant event has stage_after Lost.
C27_EveryEntryIntoLostIsADropOff ==
    \A c \in Calls :
        Fresh(c) =>
            \A i \in 1..Len(result[c].events) :
                LET e == result[c].events[i]
                IN  /\ (e.stage_before # "Lost" /\ e.stage_after = "Lost") => IsDropOff(e)
                    /\ (IsReply(e) \/ e.actor = "assistant") => e.stage_after # "Lost"
                    /\ IsDropOff(e) => (e.stage_before # "Lost" /\ e.stage_after = "Lost")

\* a run in which a reply and an assistant follow-up moved the stage, and the
\* lead then dropped off
C27_Witness ==
    \E c \in Calls :
        /\ Fresh(c)
        /\ \E i, j, k \in 1..Len(result[c].events) :
               /\ IsReply(result[c].events[i])
               /\ result[c].events[i].stage_after # result[c].events[i].stage_before
               /\ result[c].events[j].actor = "assistant"
               /\ result[c].events[j].stage_after # result[c].events[j].stage_before
               /\ i < k /\ j < k
               /\ IsDropOff(result[c].events[k])

\* C28: a day that contains an assistant event contains no event with
\* stage_before or stage_after Lost: an assistant event shares its day_index
\* with no drop-off and no revival.
C28_NoAssistantOnADayInLost ==
    \A c \in Calls :
        Fresh(c) =>
            LET ev == result[c].events
            IN  \A i, j \in 1..Len(ev) :
                    (ev[i].actor = "assistant" /\ ev[j].day_index = ev[i].day_index)
                        => /\ ev[j].stage_before # "Lost"
                           /\ ev[j].stage_after # "Lost"
                           /\ ~IsDropOff(ev[j])
                           /\ ~IsRevival(ev[j])

\* a run with a drop-off, a revival and, after both, a day with a reply and
\* an assistant event
C28_Witness ==
    \E c \in Calls :
        /\ Fresh(c)
        /\ \E k \in 3..Len(result[c].events) :
               LET ev == result[c].events
               IN  /\ ev[k].actor = "assistant"
                   /\ IsReply(ev[k - 1])
                   /\ ev[k - 1].day_index = ev[k].day_index
                   /\ \E i \in 1..(k - 2) : IsDropOff(ev[i])
                   /\ \E j \in 1..(k - 2) : IsRevival(ev[j])

\* the positions in the list ev of the events of day d, and of those by actor a
OnDay(ev, d) == {i \in 1..Len(ev) : ev[i].day_index = d}
OnDayBy(ev, d, a) == {i \in OnDay(ev, d) : ev[i].actor = a}

\* C29: every day of a run emits at least 1 and at most 4 events, at most 3
\* of them client events, at most 1 an assistant event and exactly 1 a system
\* event; hence result.days <= len(events) <= 4 * result.days and
\* stats.assistant_messages <= result.days.
C29_OneToFourEventsADay ==
    \A c \in Calls :
        Fresh(c) =>
            LET ev == result[c].events
            IN  /\ \A d \in 1..result[c].days :
                       /\ Cardinality(OnDay(ev, d)) \in 1..4
                       /\ Cardinality(OnDayBy(ev, d, "client")) <= 3
                       /\ Cardinality(OnDayBy(ev, d, "assistant")) <= 1
                       /\ Cardinality(OnDayBy(ev, d, "system")) = 1
                /\ result[c].days <= Len(ev)
                /\ Len(ev) <= 4 * result[c].days
                /\ result[c].stats.assistant_messages <= result[c].days

\* a run with a day of four events, three of them client events, a day with
\* an assistant event and a day with the summary alone
C29_Witness ==
    \E c \in Calls :
        /\ Fresh(c)
        /\ \E d1, d2, d3 \in 1..result[c].days :
               LET ev == result[c].events
               IN  /\ Cardinality(OnDay(ev, d1)) = 4
                   /\ Cardinality(OnDayBy(ev, d1, "client")) = 3
                   /\ Cardinality(OnDayBy(ev, d2, "assistant")) = 1
                   /\ Cardinality(OnDay(ev, d3)) = 1

\* the sum over the days of column a of the message timeline mt, as the
\* number of pairs <<d, k>> with k in 1..mt[d][a]
ColumnSum(mt, a) == Cardinality(UNION {{d} \X (1..mt[d][a]) : d \in DOMAIN mt})

\* C30: the graphs of a result agree with the run: stage_timeline[d].stage is
\* the stage_after of the system event of day d, the last entry's stage is
\* result.final_stage, message_timeline[d].system = 1 for every day, and the
\* columns of message_timeline sum to the three counters of stats.
C30_GraphsAgreeWithTheRun ==
    \A c \in Calls :
        Fresh(c) =>
            LET ev == result[c].events
                st == result[c].graphs.stage_timeline
                mt == result[c].graphs.message_timeline
            IN  /\ \A d \in 1..result[c].days :
                       /\ \E i \in OnDayBy(ev, d, "system") : st[d].stage = ev[i].stage_after
                       /\ \A i \in OnDayBy(ev, d, "system") : st[d].stage = ev[i].stage_after
                       /\ mt[d].system = 1
                /\ st[result[c].days].stage = result[c].final_stage
                /\ ColumnSum(mt, "client") = result[c].stats.client_messages
                /\ ColumnSum(mt, "assistant") = result[c].stats.assistant_messages
                /\ ColumnSum(mt, "system") = result[c].stats.system_messages

\* a run with a day on which the stage moved, so that the day's first event
\* and its summary differ in stage_after, and with messages in every column
C30_Witness ==
    \E c \in Calls :
        /\ Fresh(c)
        /\ result[c].stats.assistant_messages > 0
        /\ ColumnSum(result[c].graphs.message_timeline, "client") > 1
        /\ \E i \in 2..Len(result[c].events) :
               LET ev == result[c].events
               IN  /\ ev[i].actor = "system"
                   /\ ev[i - 1].day_index = ev[i].day_index
                   /\ ev[i - 1].stage_after = ev[i].stage_after
                   /\ ev[i - 1].stage_before # ev[i].stage_after

====
